---- MODULE Spec2Model ----
(***************************************************************************)
(* Model of scripts/check_use.py: the line scanner check_file, which flags *)
(* Rust `use` statements that appear after other code, and main, which     *)
(* runs it over every discovered .rs file and prints the report.           *)
(*                                                                         *)
(* A line of text is a sequence of one-character strings, so that strip,   *)
(* startswith and `in` are computed on the characters as Python does.      *)
(***************************************************************************)
EXTENDS Integers, Sequences, FiniteSets, TLC

\* ------------------------------------------------------------------ bounds
MaxLines == 3        \* longest file scanned under Spec
MaxFiles == 3        \* most paths in the tree under SpecMain

\* ------------------------------------------------------- input alphabets
\* The raw lines readlines() can hand to the scanner (some keep their "\n",
\* some are indented, so that strip() has something to do).
LineBlank    == <<" ", "\n">>
LineComment  == <<"/", "/", " ", "x", ";", "\n">>
LineUse      == <<" ", "u", "s", "e", " ", "a", ";", "\n">>
LineUseOpen  == <<"u", "s", "e", " ", "a", ":", ":", "{", "\n">>
LineUseGroup == <<"u", "s", "e", " ", "{", "b", "}", ";">>
LineItem     == <<" ", "b", ",", "\n">>
LineClose    == <<"}", ";", "\n">>
LineFn       == <<"f", "n", " ", "f", "(", ")", "{", "}">>
LineMod      == <<"m", "o", "d", " ", "m", ";", "\n">>
LineModOpen  == <<"m", "o", "d", " ", "m", " ", "{", "\n">>
LinePubMod   == <<"p", "u", "b", " ", "m", "o", "d", " ", "m", ";">>
LineAttr     == <<"#", "[", "x", "]", "\n">>

Lines ==
    { LineBlank, LineComment, LineUse, LineUseOpen, LineUseGroup, LineItem,
      LineClose, LineFn, LineMod, LineModOpen, LinePubMod, LineAttr }

\* The file contents main is run on under SpecMain: one for each way a scan
\* can go (nothing to read, clean at the top, clean in body code, one and
\* two violations, ending inside a multi-line use at the top and in body).
FileEmpty         == <<>>
FileClean         == <<LineUse>>
FileBody          == <<LineUse, LineItem>>
FileOneViolation  == <<LineItem, LineUse>>
FileTwoViolations == <<LineItem, LineUse, LineUse>>
FileOpenUse       == <<LineUseOpen>>
FileBodyOpenUse   == <<LineItem, LineUseOpen>>

MainContents ==
    { FileEmpty, FileClean, FileBody, FileOneViolation, FileTwoViolations,
      FileOpenUse, FileBodyOpenUse }

RECURSIVE SeqsUpTo(_, _)
SeqsUpTo(S, n) ==
    IF n = 0 THEN { <<>> }
    ELSE LET shorter == SeqsUpTo(S, n - 1)
         IN  shorter \cup { Append(s, x) : s \in { t \in shorter : Len(t) = n - 1 }, x \in S }

\* A file on disk: whether its path has a "target" component, whether
\* open()/readlines() succeeds on it, and the lines readlines() returns.
UnreadableFile == [target |-> FALSE, readable |-> FALSE, content |-> <<>>]
TargetFile     == [target |-> TRUE,  readable |-> TRUE,  content |-> <<>>]
ReadableFile(c) == [target |-> FALSE, readable |-> TRUE, content |-> c]

Files(contents) == { ReadableFile(c) : c \in contents } \cup { UnreadableFile, TargetFile }

\* ------------------------------------------------------- string functions
Whitespace == { " ", "\n", "\t", "\r" }

RECURSIVE LStrip(_)
LStrip(s) ==
    IF s # <<>> /\ Head(s) \in Whitespace THEN LStrip(Tail(s)) ELSE s

RECURSIVE RStrip(_)
RStrip(s) ==
    IF s # <<>> /\ s[Len(s)] \in Whitespace THEN RStrip(SubSeq(s, 1, Len(s) - 1)) ELSE s

\* str.strip()
Strip(s) == RStrip(LStrip(s))

\* str.startswith(prefix)
StartsWith(s, prefix) ==
    /\ Len(s) >= Len(prefix)
    /\ SubSeq(s, 1, Len(prefix)) = prefix

\* ch in s
Contains(s, ch) == \E k \in 1..Len(s) : s[k] = ch

PrefixComment == <<"/", "/">>
PrefixUse     == <<"u", "s", "e", " ">>
PrefixMod     == <<"m", "o", "d", " ">>
PrefixPubMod  == <<"p", "u", "b", " ", "m", "o", "d", " ">>
PrefixAttr    == <<"#", "[">>

\* ------------------------------------------------------------ check_file
\* (mutant) the message cites the 0-based index
ErrorMessage_ZeroBased(i) == [kind |-> "Line", arg |-> i]

\* The message appended for a flagged line; i is the 0-based index.
ErrorMessage(i) == [kind |-> "Line", arg |-> i + 1]

\* (mutant) the scan starts as if body code had already been seen
InitScanState_InBody ==
    [errors |-> <<>>, seen_non_use_code |-> TRUE, in_multiline_use |-> FALSE]

\* The scan state before the first line.
InitScanState ==
    [errors |-> <<>>, seen_non_use_code |-> FALSE, in_multiline_use |-> FALSE]

\* (mutant) comments are no longer skipped
IsSkipped_BlankOnly(stripped) == stripped = <<>>

\* `not stripped or stripped.startswith("//")`
IsSkipped(stripped) == stripped = <<>> \/ StartsWith(stripped, PrefixComment)

\* (mutant) the "pub mod " prefix is forgotten
IsTopAllowed_NoPubMod(stripped) ==
    \/ StartsWith(stripped, PrefixUse)
    \/ StartsWith(stripped, PrefixMod)
    \/ StartsWith(stripped, PrefixAttr)

\* The statements allowed anywhere: use, mod, pub mod, attribute.
IsTopAllowed(stripped) ==
    \/ StartsWith(stripped, PrefixUse)
    \/ StartsWith(stripped, PrefixMod)
    \/ StartsWith(stripped, PrefixPubMod)
    \/ StartsWith(stripped, PrefixAttr)

\* (mutant) a mod / pub mod line with an unmatched brace opens one too
OpensMultilineUse_AnyDecl(stripped) ==
    /\ \/ StartsWith(stripped, PrefixUse)
       \/ StartsWith(stripped, PrefixMod)
       \/ StartsWith(stripped, PrefixPubMod)
    /\ Contains(stripped, "{")
    /\ ~Contains(stripped, "}")

\* The start of a multi-line use statement.
OpensMultilineUse(stripped) ==
    /\ StartsWith(stripped, PrefixUse)
    /\ Contains(stripped, "{")
    /\ ~Contains(stripped, "}")

\* (mutant) a use line inside a multi-line use is judged like any other
ContinuationStep_Flagging(stripped, i, st) ==
    LET flagged == IF st.seen_non_use_code /\ StartsWith(stripped, PrefixUse)
                   THEN [st EXCEPT !.errors = Append(@, ErrorMessage(i))]
                   ELSE st
    IN  IF Contains(stripped, ";") THEN [flagged EXCEPT !.in_multiline_use = FALSE] ELSE flagged

\* Inside a multi-line use: the line is consumed, ";" ends the statement.
ContinuationStep(stripped, i, st) ==
    IF Contains(stripped, ";") THEN [st EXCEPT !.in_multiline_use = FALSE] ELSE st

\* (mutant) a flagged use line puts the scanner back at the top
TopAllowedStep_FlagResetsSeen(stripped, i, st) ==
    IF OpensMultilineUse(stripped)
    THEN [st EXCEPT !.in_multiline_use = TRUE]
    ELSE IF st.seen_non_use_code /\ StartsWith(stripped, PrefixUse)
         THEN [st EXCEPT !.errors = Append(@, ErrorMessage(i)),
                         !.seen_non_use_code = FALSE]
         ELSE st

\* A use/mod/pub mod/attribute line outside a multi-line use.
TopAllowedStep(stripped, i, st) ==
    IF OpensMultilineUse(stripped)
    THEN [st EXCEPT !.in_multiline_use = TRUE]
    ELSE IF st.seen_non_use_code /\ StartsWith(stripped, PrefixUse)
         THEN [st EXCEPT !.errors = Append(@, ErrorMessage(i))]
         ELSE st

\* (mutant) the multi-line test comes before the blank/comment skip
StepLine_ContinuationFirst(line, i, st) ==
    LET stripped == Strip(line)
    IN  IF st.in_multiline_use THEN ContinuationStep(stripped, i, st)
        ELSE IF IsSkipped(stripped) THEN st
        ELSE IF IsTopAllowed(stripped) THEN TopAllowedStep(stripped, i, st)
        ELSE [st EXCEPT !.seen_non_use_code = TRUE]

\* One iteration of the loop over the lines; i is the 0-based index.
StepLine(line, i, st) ==
    LET stripped == Strip(line)
    IN  IF IsSkipped(stripped) THEN st
        ELSE IF st.in_multiline_use THEN ContinuationStep(stripped, i, st)
        ELSE IF IsTopAllowed(stripped) THEN TopAllowedStep(stripped, i, st)
        ELSE [st EXCEPT !.seen_non_use_code = TRUE]

\* The whole loop, from line index i (0-based) in state st.
RECURSIVE ScanFrom(_, _, _)
ScanFrom(ls, i, st) ==
    IF i >= Len(ls) THEN st ELSE ScanFrom(ls, i + 1, StepLine(ls[i + 1], i, st))

\* check_file's second return value for a file with lines ls.
CheckFileErrors(ls) == ScanFrom(ls, 0, InitScanState).errors

\* ------------------------------------------------------------------ state
VARIABLES
    fs,                 \* path -> file on disk (paths are 1..n, ordered as sorted() orders them)
    pc,                 \* "main", "loop", "scan", "report", "exit", "raised"
    queue,              \* sorted(rust_files), the list main iterates over
    idx,                \* 1-based position of main's loop in queue
    all_errors,         \* main's flag
    out,                \* what has been printed, in order
    ret,                \* main's return value, -1 until it returns
    scanned,            \* the paths check_file has been called on, in order
    lines,              \* check_file: the lines read
    i,                  \* check_file: 0-based index of the next line
    errors,             \* check_file: messages so far
    seen_non_use_code,  \* check_file
    in_multiline_use,   \* check_file
    result              \* (has_error, errors) returned by check_file

vars == << fs, pc, queue, idx, all_errors, out, ret, scanned, lines, i, errors,
           seen_non_use_code, in_multiline_use, result >>

scanvars == << lines, i, errors, seen_non_use_code, in_multiline_use >>

NoResult == [has_error |-> FALSE, errors |-> <<>>]

InitLocals ==
    /\ pc = "main"
    /\ queue = <<>>
    /\ idx = 1
    /\ all_errors = FALSE
    /\ out = <<>>
    /\ ret = -1
    /\ scanned = <<>>
    /\ lines = <<>>
    /\ i = 0
    /\ errors = <<>>
    /\ seen_non_use_code = FALSE
    /\ in_multiline_use = FALSE
    /\ result = NoResult

\* One file in the tree, drawn from the full line alphabet.
Init ==
    /\ fs \in [1..1 -> Files(SeqsUpTo(Lines, MaxLines))]
    /\ InitLocals

\* Up to MaxFiles files, each with one of the contents of MainContents.
InitMain ==
    /\ \E n \in 0..MaxFiles : fs \in [1..n -> Files(MainContents)]
    /\ InitLocals

\* ---------------------------------------------------------------- actions
\* (mutant) the paths are put in descending order
RECURSIVE SortedSeq_Descending(_)
SortedSeq_Descending(S) ==
    IF S = {} THEN <<>>
    ELSE LET m == CHOOSE x \in S : \A y \in S : x >= y
         IN  <<m>> \o SortedSeq_Descending(S \ {m})

\* sorted() of a set of distinct paths
RECURSIVE SortedSeq(_)
SortedSeq(S) ==
    IF S = {} THEN <<>>
    ELSE LET m == CHOOSE x \in S : \A y \in S : x <= y
         IN  <<m>> \o SortedSeq(S \ {m})

\* main, lines 56-67: collect the .rs files outside target, sort them.
Discover ==
    /\ pc = "main"
    /\ queue' = SortedSeq({ p \in DOMAIN fs : ~fs[p].target })
    /\ idx' = 1
    /\ all_errors' = FALSE
    /\ pc' = "loop"
    /\ UNCHANGED << fs, out, ret, scanned, result >>
    /\ UNCHANGED scanvars

\* (mutant) the two flags live outside check_file and are not reset
CallCheckFile_NoReset ==
    /\ pc = "loop"
    /\ idx <= Len(queue)
    /\ fs[queue[idx]].readable
    /\ scanned' = Append(scanned, queue[idx])
    /\ lines' = fs[queue[idx]].content
    /\ i' = 0
    /\ errors' = InitScanState.errors
    /\ pc' = "scan"
    /\ UNCHANGED << fs, queue, idx, all_errors, out, ret, result,
                    seen_non_use_code, in_multiline_use >>

\* main calls check_file on the next path; the file is read.
CallCheckFile ==
    /\ pc = "loop"
    /\ idx <= Len(queue)
    /\ fs[queue[idx]].readable
    /\ scanned' = Append(scanned, queue[idx])
    /\ lines' = fs[queue[idx]].content
    /\ i' = 0
    /\ errors' = InitScanState.errors
    /\ seen_non_use_code' = InitScanState.seen_non_use_code
    /\ in_multiline_use' = InitScanState.in_multiline_use
    /\ pc' = "scan"
    /\ UNCHANGED << fs, queue, idx, all_errors, out, ret, result >>

\* open()/readlines() raises; nothing catches it, so it leaves main.
ReadError ==
    /\ pc = "loop"
    /\ idx <= Len(queue)
    /\ ~fs[queue[idx]].readable
    /\ scanned' = Append(scanned, queue[idx])
    /\ pc' = "raised"
    /\ UNCHANGED << fs, queue, idx, all_errors, out, ret, result >>
    /\ UNCHANGED scanvars

\* One iteration of check_file's loop.
ScanLine ==
    /\ pc = "scan"
    /\ i < Len(lines)
    /\ LET st == StepLine(lines[i + 1], i,
                          [errors |-> errors,
                           seen_non_use_code |-> seen_non_use_code,
                           in_multiline_use |-> in_multiline_use])
       IN  /\ errors' = st.errors
           /\ seen_non_use_code' = st.seen_non_use_code
           /\ in_multiline_use' = st.in_multiline_use
    /\ i' = i + 1
    /\ UNCHANGED << fs, pc, queue, idx, all_errors, out, ret, scanned, lines, result >>

\* (mutant) a multi-line use still open at end of file is reported
CheckFileReturn_FlagUnterminated ==
    /\ pc = "scan"
    /\ i = Len(lines)
    /\ LET errs == IF in_multiline_use THEN Append(errors, ErrorMessage(i)) ELSE errors
       IN  result' = [has_error |-> Len(errs) > 0, errors |-> errs]
    /\ pc' = "report"
    /\ UNCHANGED << fs, queue, idx, all_errors, out, ret, scanned >>
    /\ UNCHANGED scanvars

\* check_file returns (len(errors) > 0, errors).
CheckFileReturn ==
    /\ pc = "scan"
    /\ i = Len(lines)
    /\ result' = [has_error |-> Len(errors) > 0, errors |-> errors]
    /\ pc' = "report"
    /\ UNCHANGED << fs, queue, idx, all_errors, out, ret, scanned >>
    /\ UNCHANGED scanvars

\* The lines main prints.
FailHeader(path) == [kind |-> "FAIL", arg |-> path]
WarningLine == [kind |-> "WARNING", arg |-> 0]
PassLine == [kind |-> "PASS", arg |-> 0]

\* (mutant) the loop stops at the first file with violations
Report_StopOnFail ==
    /\ pc = "report"
    /\ IF result.has_error
       THEN /\ all_errors' = TRUE
            /\ out' = out \o <<FailHeader(queue[idx])>> \o result.errors
            /\ idx' = Len(queue) + 1
       ELSE /\ UNCHANGED << all_errors, out >>
            /\ idx' = idx + 1
    /\ pc' = "loop"
    /\ UNCHANGED << fs, queue, ret, scanned, result >>
    /\ UNCHANGED scanvars

\* main, lines 69-73, and the step to the next path.
Report ==
    /\ pc = "report"
    /\ IF result.has_error
       THEN /\ all_errors' = TRUE
            /\ out' = out \o <<FailHeader(queue[idx])>> \o result.errors
       ELSE UNCHANGED << all_errors, out >>
    /\ idx' = idx + 1
    /\ pc' = "loop"
    /\ UNCHANGED << fs, queue, ret, scanned, result >>
    /\ UNCHANGED scanvars

\* main, lines 75-80.
Summary ==
    /\ pc = "loop"
    /\ idx > Len(queue)
    /\ IF all_errors
       THEN out' = Append(out, WarningLine) /\ ret' = 1
       ELSE out' = Append(out, PassLine) /\ ret' = 0
    /\ pc' = "exit"
    /\ UNCHANGED << fs, queue, idx, all_errors, scanned, result >>
    /\ UNCHANGED scanvars

Next ==
    \/ Discover
    \/ CallCheckFile
    \/ ReadError
    \/ ScanLine
    \/ CheckFileReturn
    \/ Report
    \/ Summary

Spec == Init /\ [][Next]_vars

SpecMain == InitMain /\ [][Next]_vars

\* ------------------------------------------------- vocabulary of the claims
\* The line classes, by the trimmed text of the line alone.
IsBlankOrComment(line) == Strip(line) = <<>> \/ StartsWith(Strip(line), PrefixComment)
IsDeclaration(line)    == StartsWith(Strip(line), PrefixUse)
IsModuleDecl(line)     == StartsWith(Strip(line), PrefixMod) \/ StartsWith(Strip(line), PrefixPubMod)
IsAttribute(line)      == StartsWith(Strip(line), PrefixAttr)
IsOther(line) ==
    ~(IsBlankOrComment(line) \/ IsDeclaration(line) \/ IsModuleDecl(line) \/ IsAttribute(line))
HasOpenBraceOnly(line) == Contains(line, "{") /\ ~Contains(line, "}")

\* The scanner is about to process line i+1 of the file.
AtLine == pc = "scan" /\ i < Len(lines)
CurLine == lines[i + 1]

\* ---------------------------------------------------------------------- C1
\* C1: every Declaration line processed outside a continuation while
\* seen_non_use_code is true adds exactly one violation citing its 1-based
\* line number, and no other line adds or removes a violation.
C1_ExactlyLateDeclarationsFlagged ==
    [][ AtLine =>
          errors' = IF /\ IsDeclaration(CurLine)
                       /\ ~in_multiline_use
                       /\ seen_non_use_code
                    THEN Append(errors, ErrorMessage(i))
                    ELSE errors ]_vars

\* ---------------------------------------------------------------------- C2
\* C2: the start line of a multi-line use ('use ' with '{' and no '}') is
\* judged by the normal rule: flagged at its own line number when
\* seen_non_use_code is already true, not flagged otherwise; either way the
\* scanner enters the continuation.
C2_MultilineStartJudgedNormally ==
    [][ ( /\ AtLine
          /\ IsDeclaration(CurLine)
          /\ HasOpenBraceOnly(CurLine)
          /\ ~in_multiline_use )
        => /\ in_multiline_use'
           /\ errors' = IF seen_non_use_code
                        THEN Append(errors, ErrorMessage(i))
                        ELSE errors ]_vars

\* ---------------------------------------------------------------------- C3
\* C3 as stated: a mod / pub mod line with '{' and no '}', processed outside
\* a continuation, puts the scanner into the continuation.
C3_ModuleDeclOpensContinuation ==
    [][ ( /\ AtLine
          /\ IsModuleDecl(CurLine)
          /\ HasOpenBraceOnly(CurLine)
          /\ ~in_multiline_use )
        => in_multiline_use' ]_vars

\* C3 as amended: a mod / pub mod line processed outside a continuation,
\* with or without an unmatched '{', changes nothing (it opens no
\* continuation, records no violation, does not set seen_non_use_code), and
\* the only line that opens a continuation is a 'use ' line with '{' and
\* no '}'.
C3_OnlyUseOpensContinuation ==
    [][ AtLine =>
          /\ ( IsModuleDecl(CurLine) /\ ~in_multiline_use
               => UNCHANGED << in_multiline_use, seen_non_use_code, errors >> )
          /\ ( ~in_multiline_use /\ in_multiline_use'
               => IsDeclaration(CurLine) /\ HasOpenBraceOnly(CurLine) ) ]_vars

\* A use line right after 'mod m {' in body code has been judged on its own.
C3_Witness ==
    /\ pc = "scan"
    /\ i = 3
    /\ IsOther(lines[1])
    /\ IsModuleDecl(lines[2]) /\ HasOpenBraceOnly(lines[2])
    /\ IsDeclaration(lines[3])
    /\ errors = <<ErrorMessage(2)>>
    /\ ~in_multiline_use

\* ---------------------------------------------------------------------- C4
\* C4 as stated: inside a continuation every line containing ';' ends the
\* continuation, whatever its class, a comment such as '// x;' included.
C4_AnySemicolonEndsContinuation ==
    [][ AtLine /\ in_multiline_use /\ Contains(CurLine, ";")
        => ~in_multiline_use' ]_vars

\* C4 as amended: inside a continuation the blank/comment skip still comes
\* first; the continuation ends on the first following line that is neither
\* blank nor a comment and contains ';', whatever its class otherwise, and
\* no line inside it is flagged or sets seen_non_use_code.
C4_NonCommentSemicolonEndsContinuation ==
    [][ AtLine /\ in_multiline_use
        => /\ in_multiline_use' = (IsBlankOrComment(CurLine) \/ ~Contains(CurLine, ";"))
           /\ UNCHANGED << seen_non_use_code, errors >> ]_vars

\* A comment holding ';' was read inside a continuation, which is still
\* open, and the next line holding ';' (a mod line) then closed it.
C4_Witness ==
    /\ pc = "scan"
    /\ i = 3
    /\ OpensMultilineUse(Strip(lines[1]))
    /\ IsBlankOrComment(lines[2]) /\ Contains(lines[2], ";")
    /\ IsModuleDecl(lines[3]) /\ Contains(lines[3], ";")
    /\ ~in_multiline_use

\* ---------------------------------------------------------------------- C5
\* C5: processing a blank line or a comment line changes neither
\* seen_non_use_code, nor in_multiline_use, nor the violations, in any state.
C5_BlankAndCommentChangeNothing ==
    [][ AtLine /\ IsBlankOrComment(CurLine)
        => UNCHANGED << seen_non_use_code, in_multiline_use, errors >> ]_vars

\* A comment was read in body code inside an open continuation.
C5_Witness ==
    /\ pc = "scan"
    /\ i = 3
    /\ IsOther(lines[1])
    /\ OpensMultilineUse(Strip(lines[2]))
    /\ IsBlankOrComment(lines[3]) /\ lines[3] # LineBlank
    /\ seen_non_use_code
    /\ in_multiline_use
    /\ errors = <<>>

\* ---------------------------------------------------------------------- C6
\* C6: no line consumed while in_multiline_use is true produces a violation.
C6_NoViolationInsideContinuation ==
    [][ AtLine /\ in_multiline_use => errors' = errors ]_vars

\* A 'use ' line inside a multi-line use opened after body code was consumed
\* without being flagged.
C6_Witness ==
    /\ pc = "scan"
    /\ i = 3
    /\ IsOther(lines[1])
    /\ OpensMultilineUse(Strip(lines[2]))
    /\ IsDeclaration(lines[3])
    /\ seen_non_use_code
    /\ errors = <<>>

\* ---------------------------------------------------------------------- C7
\* ls with line a inserted after its first k lines
InsertAt(ls, k, a) == SubSeq(ls, 1, k) \o <<a>> \o SubSeq(ls, k + 1, Len(ls))

AttrOrModLines == { l \in Lines : IsAttribute(l) \/ IsModuleDecl(l) }

\* An attribute or mod line produces no violation and does not set
\* seen_non_use_code, in any state.
AttrAndModNeverFlagNorSetSeen ==
    AtLine /\ (IsAttribute(CurLine) \/ IsModuleDecl(CurLine))
    => UNCHANGED << seen_non_use_code, errors >>

\* The file being scanned is clean and has a Declaration after position i.
CleanWithLaterDeclaration ==
    /\ pc = "scan"
    /\ CheckFileErrors(lines) = <<>>
    /\ \E j \in (i + 1)..Len(lines) : IsDeclaration(lines[j])

\* C7 as stated: attribute and mod lines never produce a violation and never
\* set seen_non_use_code, and inserting one anywhere before a Declaration of
\* a clean file leaves the file clean.
C7_InsertionAnywhereKeepsClean ==
    /\ [][AttrAndModNeverFlagNorSetSeen]_vars
    /\ [](CleanWithLaterDeclaration
          => \A a \in AttrOrModLines : CheckFileErrors(InsertAt(lines, i, a)) = <<>>)

\* C7 as amended: attribute and mod lines never produce a violation and never
\* set seen_non_use_code, and inserting one before a Declaration of a clean
\* file, at a position where no multi-line use is open, leaves the file clean.
C7_InsertionOutsideContinuationKeepsClean ==
    /\ [][AttrAndModNeverFlagNorSetSeen]_vars
    /\ [](CleanWithLaterDeclaration /\ ~in_multiline_use
          => \A a \in AttrOrModLines : CheckFileErrors(InsertAt(lines, i, a)) = <<>>)

\* An attribute and a mod line were read at the top of a clean file, ahead of
\* a Declaration, and the scanner is still at the top.
C7_Witness ==
    /\ CleanWithLaterDeclaration
    /\ i = 2
    /\ IsAttribute(lines[1])
    /\ IsModuleDecl(lines[2])
    /\ ~seen_non_use_code
    /\ ~in_multiline_use
    /\ errors = <<>>

\* ---------------------------------------------------------------------- C8
\* Every Declaration line of ls precedes every Other line of ls.
DeclarationsPrecedeOthers(ls) ==
    \A j, k \in 1..Len(ls) : IsDeclaration(ls[j]) /\ IsOther(ls[k]) => j < k

\* C8: check_file returns clean for every file in which every Declaration
\* line precedes every Other line (the empty file and files of blank and
\* comment lines included).
C8_DeclarationsFirstIsClean ==
    pc = "report" /\ DeclarationsPrecedeOthers(lines)
    => ~result.has_error /\ result.errors = <<>>

\* check_file returned clean for a file with Declarations and then Others.
C8_Witness ==
    /\ pc = "report"
    /\ DeclarationsPrecedeOthers(lines)
    /\ \E j \in 1..Len(lines) : IsDeclaration(lines[j])
    /\ \E k \in 1..Len(lines) : IsOther(lines[k])
    /\ ~result.has_error

\* ---------------------------------------------------------------------- C9
\* The paths of the FAIL headers printed so far, in order.
RECURSIVE FailPaths(_)
FailPaths(o) ==
    IF o = <<>> THEN <<>>
    ELSE (IF Head(o).kind = "FAIL" THEN <<Head(o).arg>> ELSE <<>>) \o FailPaths(Tail(o))

SomeUnreadable == \E k \in 1..Len(queue) : ~fs[queue[k]].readable

\* C9: a read failure on one file is fatal for that file only: no exception
\* leaves main, and when main returns every file of the list has been
\* handed to check_file, the unreadable ones have an entry of their own in
\* the report, and the result is failure.
C9_ReadFailureContained ==
    /\ pc # "raised"
    /\ pc = "exit"
       => /\ scanned = queue
          /\ SomeUnreadable
             => /\ ret = 1
                /\ \A k \in 1..Len(queue) :
                     ~fs[queue[k]].readable => \E e \in 1..Len(out) : out[e].arg = queue[k]

\* --------------------------------------------------------------------- C10
HasViolations(path) == CheckFileErrors(fs[path].content) # <<>>

\* C10: when every file of the list is readable, no exception leaves main,
\* check_file is called on the files of the list one after another, each
\* exactly once, and when main returns a FAIL header has been printed for
\* exactly the files with violations.
C10_EveryFileScannedAndReported ==
    (\A k \in 1..Len(queue) : fs[queue[k]].readable)
    => /\ pc # "raised"
       /\ Len(scanned) <= Len(queue)
       /\ scanned = SubSeq(queue, 1, Len(scanned))
       /\ pc = "exit"
          => /\ scanned = queue
             /\ FailPaths(out) = SelectSeq(queue, HasViolations)

\* main returned after scanning three files, the first two of which have
\* violations.
C10_Witness ==
    /\ pc = "exit"
    /\ Len(queue) = 3
    /\ \A k \in 1..3 : fs[queue[k]].readable
    /\ HasViolations(queue[1])
    /\ HasViolations(queue[2])
    /\ scanned = queue
    /\ FailPaths(out) = <<queue[1], queue[2]>>

\* --------------------------------------------------------------------- C11
\* main is over: it returned, or an exception left it.
MainOver == pc \in {"exit", "raised"}

FileIsClean(path) == fs[path].readable /\ ~HasViolations(path)

\* C11: once main is over its result is 0, with the pass line as the only
\* output, exactly when every file of the list is clean, and it is 1 when a
\* file of the list has a violation or could not be read.
C11_ResultTellsAllClean ==
    MainOver
    => /\ ret = 0 <=> \A k \in 1..Len(queue) : FileIsClean(queue[k])
       /\ ret = 0 => out = <<PassLine>>
       /\ (\E k \in 1..Len(queue) : ~FileIsClean(queue[k])) => ret = 1

\* --------------------------------------------------------------------- C12
\* The scan state check_file is in after the first k lines of ls, whatever
\* was scanned before.
PrefixState(ls, k) == ScanFrom(SubSeq(ls, 1, k), 0, InitScanState)

ScanState ==
    [errors |-> errors,
     seen_non_use_code |-> seen_non_use_code,
     in_multiline_use |-> in_multiline_use]

\* C12: the scan state and the returned violation list of a file depend on
\* that file's lines alone: during the scan of a file the state is the one
\* reached from a fresh state over the lines read so far, and the list
\* returned is the one a fresh scan of the same lines gives, whatever files
\* main scanned before.
C12_ScanDependsOnLinesOnly ==
    /\ pc \in {"scan", "report"}
       => /\ lines = fs[queue[idx]].content
          /\ ScanState = PrefixState(lines, i)
    /\ pc = "report" => result.errors = CheckFileErrors(fs[queue[idx]].content)

\* The second file was scanned after a file that ended in body code inside
\* an unterminated multi-line use, and got its own violation.
C12_Witness ==
    /\ pc = "report"
    /\ idx = 2
    /\ fs[queue[1]].content = FileBodyOpenUse
    /\ fs[queue[2]].content = FileOneViolation
    /\ result.errors = <<ErrorMessage(1)>>

\* --------------------------------------------------------------------- C13
\* No line from the next one to the end of the file contains ';'.
NoTerminatorAhead == \A j \in (i + 1)..Len(lines) : ~Contains(lines[j], ";")

\* The line whose processing opened the multi-line use that is still open.
OpenedAt ==
    CHOOSE k \in 1..Len(lines) :
        /\ ~PrefixState(lines, k - 1).in_multiline_use
        /\ \A j \in k..Len(lines) : PrefixState(lines, j).in_multiline_use

\* Inside a multi-line use with no ';' ahead, a line is consumed: the
\* multi-line use stays open, nothing is flagged, seen_non_use_code is kept.
ConsumedByUnterminatedUse ==
    AtLine /\ in_multiline_use /\ NoTerminatorAhead
    => in_multiline_use' /\ UNCHANGED << errors, seen_non_use_code >>

\* C13: when a multi-line use is open and the file ends before a line
\* containing ';', every remaining line is consumed without a violation and
\* without setting seen_non_use_code, and check_file returns normally, with
\* the violations recorded before the multi-line use began and no others.
C13_UnterminatedUseAtEndOfFile ==
    /\ [][ConsumedByUnterminatedUse]_vars
    /\ [](pc = "scan" /\ i = Len(lines) /\ in_multiline_use => ENABLED CheckFileReturn)
    /\ [](pc = "report" /\ in_multiline_use
          => /\ result.errors = PrefixState(lines, OpenedAt - 1).errors
             /\ result.has_error = (result.errors # <<>>)
             /\ seen_non_use_code = PrefixState(lines, OpenedAt - 1).seen_non_use_code)

\* check_file returned clean for a file that opens a multi-line use after
\* body code and ends, without ';', on a further 'use ' line.
C13_Witness ==
    /\ pc = "report"
    /\ Len(lines) = 3
    /\ IsOther(lines[1])
    /\ OpensMultilineUse(Strip(lines[2]))
    /\ IsDeclaration(lines[3]) /\ ~Contains(lines[3], ";")
    /\ in_multiline_use
    /\ result.errors = <<>>

\* --------------------------------------------------------------------- C14
\* C14: seen_non_use_code is false when the scan of a file starts, becomes
\* true exactly when an Other line is processed outside a multi-line use,
\* is never reset during the scan, and is left as it is by every 'use '
\* line, flagged or not.
C14_SeenSetOnlyByOtherLines ==
    [][ /\ pc = "loop" /\ pc' = "scan" => ~seen_non_use_code'
        /\ AtLine
           => seen_non_use_code' =
                (seen_non_use_code \/ (IsOther(CurLine) /\ ~in_multiline_use))
        /\ pc = "scan" /\ ~AtLine => UNCHANGED seen_non_use_code ]_vars

\* A 'use ' line was flagged in body code and the scanner is still in body.
C14_Witness ==
    /\ pc = "scan"
    /\ i = 2
    /\ IsOther(lines[1])
    /\ IsDeclaration(lines[2])
    /\ errors = <<ErrorMessage(1)>>
    /\ seen_non_use_code

\* --------------------------------------------------------------------- C15
NotInTarget(path) == ~fs[path].target

\* The paths outside target, in ascending order.
AscendingPaths == SelectSeq([k \in 1..Len(fs) |-> k], NotInTarget)

\* What main prints for the files of q, scanned in that order: for each
\* file with violations its FAIL header, then its violation lines.
RECURSIVE Blocks(_)
Blocks(q) ==
    IF q = <<>> THEN <<>>
    ELSE (IF HasViolations(Head(q))
          THEN <<FailHeader(Head(q))>> \o CheckFileErrors(fs[Head(q)].content)
          ELSE <<>>) \o Blocks(Tail(q))

\* The files main has finished with.
Reported == SubSeq(queue, 1, IF pc = "exit" THEN Len(queue) ELSE idx - 1)

\* C15: the files are scanned one after another in ascending path order;
\* the output is, in that same order, one block per file with violations
\* (the FAIL header, then all of the file's violation lines), and the
\* summary line comes last, after the last file has been scanned.
C15_ReportInPathOrder ==
    /\ pc # "main" => queue = AscendingPaths
    /\ Len(scanned) <= Len(queue)
    /\ scanned = SubSeq(queue, 1, Len(scanned))
    /\ pc # "exit" => out = Blocks(Reported)
    /\ pc = "exit"
       => /\ scanned = queue
          /\ out = Blocks(queue) \o << IF all_errors THEN WarningLine ELSE PassLine >>

\* main returned after three files: the first has two violations, the
\* second is clean, the third has one.
C15_Witness ==
    /\ pc = "exit"
    /\ queue = <<1, 2, 3>>
    /\ out = << FailHeader(1), ErrorMessage(1), ErrorMessage(2),
                FailHeader(3), ErrorMessage(1), WarningLine >>

\* --------------------------------------------------------------------- C16
\* errs is a well-formed violation list for the file being scanned.
WellFormed(errs) ==
    /\ \A e \in 1..Len(errs) :
         /\ errs[e].kind = "Line"
         /\ errs[e].arg \in 1..Len(lines)
         /\ IsDeclaration(lines[errs[e].arg])
         /\ \E j \in 1..(errs[e].arg - 1) :
              IsOther(lines[j]) /\ ~PrefixState(lines, j - 1).in_multiline_use
    /\ \A e \in 1..(Len(errs) - 1) : errs[e].arg < errs[e + 1].arg

\* C16: every violation check_file records cites a line number between 1
\* and the number of lines, the numbers are strictly increasing, the cited
\* line's trimmed text starts with 'use ', an Other line was processed
\* outside a multi-line use earlier in the file, and the returned has_error
\* is true exactly when the returned list is not empty.
C16_ViolationsWellFormed ==
    /\ pc = "scan" => WellFormed(errors)
    /\ pc = "report"
       => /\ WellFormed(result.errors)
          /\ result.has_error = (result.errors # <<>>)

\* check_file returned two violations, at lines 2 and 3.
C16_Witness ==
    /\ pc = "report"
    /\ result.has_error
    /\ result.errors = <<ErrorMessage(1), ErrorMessage(2)>>
    /\ Len(lines) = 3

====
